---- MODULE Spec2Model ----
(***************************************************************************)
(* State-machine model of travel_recommendation.js (TravelBloom): the      *)
(* one-time dataset fetch, the tiered search handler, the reset handler,   *)
(* page navigation, the card renderer and the interval-driven clock.       *)
(*                                                                         *)
(* Text is modelled as a sequence of tokens.  Strings the code inspects    *)
(* character by character (the query, country names, city names) are       *)
(* sequences of one-character tokens; fixed message fragments are single   *)
(* tokens.  The JavaScript value null is the one-token text Null.          *)
(***************************************************************************)
EXTENDS Integers, Sequences, FiniteSets, TLC

\* ------------------------------------------------------------------ bounds
\* Longest beaches list among the datasets the fetch may deliver.
MaxItems == 7
\* Interval handles the timer table can hand out (1..MaxTimerId).
MaxTimerId == 2
\* Distinct wall-clock readings new Date() may return.
MaxNow == 2

\* ------------------------------------------------------------ text helpers
Null == <<"<null>">>
Empty == <<>>

\* JavaScript truthiness of a string-or-null value.
Truthy(s) == s # Null /\ s # Empty

UpperLetters ==
  <<"A","B","C","D","E","F","G","H","I","J","K","L","M",
    "N","O","P","Q","R","S","T","U","V","W","X","Y","Z">>

LowerLetters ==
  <<"a","b","c","d","e","f","g","h","i","j","k","l","m",
    "n","o","p","q","r","s","t","u","v","w","x","y","z">>

Digits == {"0","1","2","3","4","5","6","7","8","9"}

Range(s) == {s[i] : i \in 1..Len(s)}

\* \w of a JavaScript regular expression: [A-Za-z0-9_].
WordChars == Range(UpperLetters) \cup Range(LowerLetters) \cup Digits \cup {"_"}
IsWordChar(c) == c \in WordChars

\* \s of a JavaScript regular expression, over the characters the inputs use.
SpaceChars == {" ", "\t"}
IsSpaceChar(c) == c \in SpaceChars

\* The lower-case letter of each upper-case letter.
LowerOf == [c \in Range(UpperLetters) |->
              LowerLetters[CHOOSE i \in 1..26 : UpperLetters[i] = c]]

ToLowerChar(c) == IF c \in DOMAIN LowerOf THEN LowerOf[c] ELSE c

\* String.prototype.toLowerCase
toLowerCase(s) == [i \in 1..Len(s) |-> ToLowerChar(s[i])]

SetMin(S) == CHOOSE x \in S : \A y \in S : x <= y

\* String.prototype.trimStart and trimEnd
RECURSIVE trimStart(_)
trimStart(s) ==
  IF s # <<>> /\ IsSpaceChar(Head(s)) THEN trimStart(Tail(s)) ELSE s

RECURSIVE trimEnd(_)
trimEnd(s) ==
  IF s # <<>> /\ IsSpaceChar(s[Len(s)]) THEN trimEnd(SubSeq(s, 1, Len(s) - 1)) ELSE s

\* String.prototype.trim
trim(s) == trimEnd(trimStart(s))

\* text.replace(/[^\w\s-]/g, '')
StripPunctuation(s) ==
  SelectSeq(s, LAMBDA c : IsWordChar(c) \/ IsSpaceChar(c) \/ c = "-")

\* String.prototype.includes
includes(hay, needle) ==
  \E i \in 0..(Len(hay) - Len(needle)) :
     SubSeq(hay, i + 1, i + Len(needle)) = needle

\* String.prototype.split(','): the segments between commas, in order.
RECURSIVE split(_)
split(s) ==
  LET commas == {i \in 1..Len(s) : s[i] = ","}
  IN  IF commas = {} THEN <<s>>
      ELSE LET k == SetMin(commas)
           IN  <<SubSeq(s, 1, k - 1)>> \o split(SubSeq(s, k + 1, Len(s)))

\* Array.prototype.find over the indices that satisfy its predicate: the
\* first of them, 0 if there is none.
FirstOf(hits) == IF hits = {} THEN 0 ELSE SetMin(hits)

MinOf(a, b) == IF a <= b THEN a ELSE b
MaxOf(a, b) == IF a >= b THEN a ELSE b

\* Array.prototype.slice(0, n)
SliceTo(seq, n) == SubSeq(seq, 1, MinOf(n, Len(seq)))

\* ------------------------------------------------------- program constants
NoData == [null |-> TRUE]
NoInterval == 0

MsgTypeKeyword ==
  <<"Type a keyword like \"beach\", \"temple\", \"country\", or a country/city name.">>
MsgStillLoading == <<"Data is still loading. Try again in a moment.">>
MsgNoMatches ==
  <<"No matches found. Try \"beach\", \"temple\", \"country\", or a country/city name.">>
MsgNoRecommendations == <<"No recommendations found for that search.">>
MsgUnableToLoad ==
  <<"Unable to load recommendation data. Check your JSON file path (and use Live Server).">>

\* ------------------------------------------------------------------- data
Beach == <<"b","e","a","c","h">>
Temple == <<"t","e","m","p","l","e">>
Country == <<"c","o","u","n","t","r","y">>
Japan == <<"J","a","p","a","n">>
Brazil == <<"B","r","a","z","i","l">>
Australia == <<"A","u","s","t","r","a","l","i","a">>
Peru == <<"P","e","r","u">>
NewJapan == <<"N","e","w"," ">> \o Japan
BeachLand == <<"B","e","a","c","h">>
CommaSpace == <<",", " ">>

Place(name, description, imageUrl) ==
  [name |-> name, description |-> description, imageUrl |-> imageUrl]

City(name) == Place(name, <<"A city worth a visit.">>, <<"city.jpg">>)

\* The dataset shipped with the page: every key present, names "City, Country".
SampleData ==
  [keys |-> {"beaches", "temples", "countries"},
   beaches |-> << Place(<<"Bora Bora, French Polynesia">>, <<"An island.">>, <<"bora.jpg">>),
                  Place(<<"Copacabana Beach, Brazil">>, <<"A famous beach.">>, <<"copa.jpg">>) >>,
   temples |-> << Place(<<"Angkor Wat, Cambodia">>, <<"A temple complex.">>, <<"angkor.jpg">>),
                  Place(<<"Taj Mahal, India">>, <<"A mausoleum.">>, <<"taj.jpg">>) >>,
   countries |-> <<
     [name |-> Australia,
      cities |-> << City(<<"S","y","d","n","e","y">> \o CommaSpace \o Australia),
                    City(<<"M","e","l","b","o","u","r","n","e">> \o CommaSpace \o Australia) >>],
     [name |-> Japan,
      cities |-> << City(<<"T","o","k","y","o">> \o CommaSpace \o Japan),
                    City(<<"K","y","o","t","o">> \o CommaSpace \o Japan) >>],
     [name |-> Brazil,
      cities |-> << City(<<"R","i","o">> \o CommaSpace \o Brazil),
                    City(<<"S","a","l","v","a","d","o","r">> \o CommaSpace \o Brazil) >>] >>]

\* A dataset of the documented shape with the beaches key absent, a country
\* whose name contains another country's name and precedes it, a country named
\* like a keyword, a country outside the timezone table, city names without a
\* comma, and a place without description or image.
EdgeData ==
  [keys |-> {"temples", "countries"},
   beaches |-> <<>>,
   temples |-> << Place(Empty, Empty, Empty) >>,
   countries |-> <<
     [name |-> NewJapan,
      cities |-> << City(<<"O","s","a","k","a">>) >>],
     [name |-> Japan,
      cities |-> << City(<<"K","y","o","t","o">> \o CommaSpace \o Japan),
                    City(<<"N","a","r","a">> \o CommaSpace \o Japan),
                    City(<<"K","o","b","e">> \o CommaSpace \o Japan) >>],
     [name |-> BeachLand,
      cities |-> << City(<<"P","a","l","m">> \o CommaSpace \o BeachLand) >>],
     [name |-> Peru,
      cities |-> << City(<<"L","i","m","a">> \o CommaSpace \o Peru),
                    City(<<"C","u","s","c","o">>) >>] >>]

\* A dataset of the documented shape whose names are untidy: two countries
\* whose names differ only in surrounding spaces, a country with an empty name,
\* a country without cities, and city names with several commas, a trailing
\* comma, padded segments, and a trailing segment that names no country of the
\* dataset.
OddData ==
  [keys |-> {"countries"},
   beaches |-> <<>>,
   temples |-> <<>>,
   countries |-> <<
     [name |-> <<" ">> \o Japan \o <<" ">>,
      cities |-> << City(<<"K","y","o","t","o",",","K","a","n","s","a","i",","," ">> \o Japan),
                    City(<<"N","a","r","a",","," "," ">> \o Japan \o <<" ">>) >>],
     [name |-> Japan,
      cities |-> << City(<<"T","o","k","y","o",",">>) >>],
     [name |-> Peru,
      cities |-> << City(<<"B","a","l","i",","," ","I","n","d","o","n","e","s","i","a">>) >>],
     [name |-> Empty,
      cities |-> << City(<<"R","i","o"," ",",">> \o Brazil) >>],
     [name |-> Brazil,
      cities |-> <<>>] >>]

\* A dataset whose only country has no entry in the timezone table, while one
\* of its city names ends in a country that has.
UnmappedData ==
  [keys |-> {"countries"},
   beaches |-> <<>>,
   temples |-> <<>>,
   countries |-> <<
     [name |-> Peru,
      cities |-> << City(<<"L","i","m","a">> \o CommaSpace \o Peru),
                    City(<<"K","y","o","t","o">> \o CommaSpace \o Japan) >>] >>]

\* A dataset holding only a beaches list of n places.
SizedData(n) ==
  [keys |-> {"beaches"},
   beaches |-> [i \in 1..n |-> Place(<<"Beach #", ToString(i)>>, <<"Sand.">>, <<"b.jpg">>)],
   temples |-> <<>>,
   countries |-> <<>>]

\* The JSON documents the fetch may deliver.
DataSets == {SampleData, EdgeData, OddData, UnmappedData} \cup {SizedData(n) : n \in 0..MaxItems}

\* apiData.beaches || [], apiData.temples || [], apiData.countries || []
BeachesOf(d) == IF "beaches" \in d.keys THEN d.beaches ELSE <<>>
TemplesOf(d) == IF "temples" \in d.keys THEN d.temples ELSE <<>>
CountriesOf(d) == IF "countries" \in d.keys THEN d.countries ELSE <<>>

\* Values the user may leave in the search box before pressing Search.
Queries ==
  { Empty,
    <<" ", " ", " ">>,
    Beach,
    <<"B","e","a","c","h","e","s">>,
    <<" ","B","E","A","C","H","!"," ">>,
    <<"b","e","a","c","h","y">>,
    <<"T","e","m","p","l","e","s">>,
    Country,
    <<"C","o","u","n","t","r","i","e","s","."," ">>,
    <<"j","a","p","a","n">>,
    <<"J","A","P","A","N">>,
    <<"j","a","p">>,
    <<"p","e","r","u">>,
    <<"b","r","a","z","i","l">>,
    <<"k","y","o","t","o">>,
    <<"s","y","d","n","e","y">>,
    <<"l","i","m","a">>,
    <<"c","u","s","c","o">>,
    <<"n","a","r","a">>,
    <<"t","o","k","y","o">>,
    <<"b","a","l","i">>,
    <<"r","i","o">>,
    <<"m">>,
    <<"o">>,
    <<"z","z","z">>,
    <<"!","?">> }

\* Readings of new Date().
Times == 0..(MaxNow - 1)

\* ---------------------------------------------------------- pure functions

\* normalizeKeyword(text) without the toLowerCase() step.
normalizeKeywordCaseSensitive(text) ==
  LET t == trim(StripPunctuation(text))
  IN  IF t = <<"b","e","a","c","h","e","s">> THEN Beach
      ELSE IF t = <<"t","e","m","p","l","e","s">> THEN Temple
      ELSE IF t = <<"c","o","u","n","t","r","i","e","s">> THEN Country
      ELSE t

\* normalizeKeyword(text)
normalizeKeyword(text) ==
  LET t == trim(StripPunctuation(toLowerCase(text)))
  IN  IF t = <<"b","e","a","c","h","e","s">> THEN Beach
      ELSE IF t = <<"t","e","m","p","l","e","s">> THEN Temple
      ELSE IF t = <<"c","o","u","n","t","r","i","e","s">> THEN Country
      ELSE t

\* flattenAllCities(countries)
RECURSIVE flattenAllCities(_)
flattenAllCities(countries) ==
  IF countries = <<>> THEN <<>>
  ELSE Head(countries).cities \o flattenAllCities(Tail(countries))

\* getTimeZoneForCountry(countryName)
getTimeZoneForCountry(countryName) ==
  LET key == trim(toLowerCase(countryName))
  IN  IF key = toLowerCase(Australia) THEN <<"Australia/Sydney">>
      ELSE IF key = toLowerCase(Japan) THEN <<"Asia/Tokyo">>
      ELSE IF key = toLowerCase(Brazil) THEN <<"America/Sao_Paulo">>
      ELSE Null

\* Array.from(new Set(names)): first occurrences, in order.
RECURSIVE Unique(_)
Unique(names) ==
  IF names = <<>> THEN <<>>
  ELSE LET rest == Unique(SubSeq(names, 1, Len(names) - 1))
           last == names[Len(names)]
       IN  IF last \in Range(rest) THEN rest ELSE Append(rest, last)

\* getTimeZonesForCountries(countryNames) without the Set that drops repeated
\* names.
getTimeZonesForCountriesKeepsRepeats(countryNames) ==
  LET trimmed == [i \in 1..Len(countryNames) |-> trim(countryNames[i])]
      named == SelectSeq(trimmed, Truthy)
      pairs == [i \in 1..Len(named) |->
                  [label |-> named[i], timeZone |-> getTimeZoneForCountry(named[i])]]
  IN  SelectSeq(pairs, LAMBDA x : Truthy(x.timeZone))

\* getTimeZonesForCountries(countryNames)
getTimeZonesForCountries(countryNames) ==
  LET trimmed == [i \in 1..Len(countryNames) |-> trim(countryNames[i])]
      unique == Unique(SelectSeq(trimmed, Truthy))
      pairs == [i \in 1..Len(unique) |->
                  [label |-> unique[i], timeZone |-> getTimeZoneForCountry(unique[i])]]
  IN  SelectSeq(pairs, LAMBDA x : Truthy(x.timeZone))

\* inferCountryFromCityName(cityName) reading the segment after the first comma
\* instead of the last one.
inferCountryFromSecondSegment(cityName) ==
  LET parts == split(trim(cityName))
  IN  IF Len(parts) < 2 THEN Null ELSE trim(parts[2])

\* inferCountryFromCityName(cityName)
inferCountryFromCityName(cityName) ==
  LET parts == split(trim(cityName))
  IN  IF Len(parts) < 2 THEN Null ELSE trim(parts[Len(parts)])

\* new Date().toLocaleTimeString('en-US', {timeZone, hour12, ...}): one token
\* determined by the instant and the zone.
FormatTime(now, timeZone) == <<ToString(now)>> \o <<"@">> \o timeZone

\* The text updateSingleClock(countryName, timeZone) writes.
SingleClockText(countryName, timeZone, now) ==
  <<"Current time in ">> \o countryName \o <<": ">> \o FormatTime(now, timeZone)

RECURSIVE ClockLines(_, _)
ClockLines(tzList, now) ==
  IF tzList = <<>> THEN <<>>
  ELSE <<"\n">> \o Head(tzList).label \o <<": ">>
       \o FormatTime(now, Head(tzList).timeZone) \o ClockLines(Tail(tzList), now)

\* The text updateMultiClock(tzList) writes.
MultiClockText(tzList, now) == <<"Current times:">> \o ClockLines(tzList, now)

\* ------------------------------------------------------------------ state
VARIABLES
  apiData,          \* the fetched dataset, NoData while null
  fetchState,       \* "pending", "loaded" or "failed": where fetchApiData stands
  clockIntervalId,  \* the recorded interval handle, NoInterval while null
  timers,           \* the browser's active repeating tasks
  searchInput,      \* #searchInput.value
  results,          \* the cards inside #results
  emptyState,       \* #emptyState: display and text
  resultsHeader,    \* #resultsHeader: display, title and meta text
  timeBox,          \* #timeBox: display and text
  page,             \* the active page section
  lastCall          \* the handler that ran last and the branch it took

vars ==
  <<apiData, fetchState, clockIntervalId, timers, searchInput, results,
    emptyState, resultsHeader, timeBox, page, lastCall>>

Pages == {"home", "about", "contact"}

Hidden == [display |-> "none", text |-> Empty]

\* What a handler leaves behind: its name, whether a repeating task was
\* active when it was entered, the tier that fired (0: none was evaluated),
\* the result list and category label it computed, and the clock function it
\* called ("none", "single" or "multi") with the (label, timeZone) pairs passed.
Call(handler, running, tier, items, label, started, tzList) ==
  [handler |-> handler, running |-> running, tier |-> tier, items |-> items,
   label |-> label, started |-> started, tzList |-> tzList]

\* A handler that evaluates no tier and calls no clock start function.
Plain(handler, running) == Call(handler, running, 0, <<>>, Null, "none", <<>>)

\* ------------------------------------------------------------ DOM writers

\* setTimeBox(message)
setTimeBox(message) ==
  IF ~Truthy(message) THEN [display |-> "none", text |-> Empty]
  ELSE [display |-> "block", text |-> message]

\* setResultsHeader(queryRaw, totalFound, categoryLabel)
setResultsHeader(queryRaw, totalFound, categoryLabel) ==
  IF ~Truthy(queryRaw)
  THEN [display |-> "none", title |-> <<"Results">>, meta |-> Empty]
  ELSE [display |-> "block",
        title |-> <<"Showing results for: \"">> \o queryRaw \o <<"\"">>,
        meta |-> (IF Truthy(categoryLabel)
                  THEN <<"Category: ">> \o categoryLabel
                  ELSE <<"Category: (no match)">>)
                 \o <<" (bullet) Matches found: ", ToString(totalFound)>>]

\* renderEmpty(message): the cards and the empty-state box it leaves.
renderEmpty(message) ==
  [results |-> <<>>, emptyState |-> [display |-> "block", text |-> message]]

\* One card of renderRecommendations.
Card(item, badgeLabel) ==
  [name |-> IF Truthy(item.name) THEN item.name ELSE <<"Unknown Place">>,
   description |-> IF Truthy(item.description) THEN item.description
                   ELSE <<"No description available.">>,
   imageUrl |-> IF Truthy(item.imageUrl) THEN item.imageUrl
                ELSE <<"images/placeholder.jpg">>,
   badge |-> badgeLabel]

\* renderRecommendations(items, badgeLabel) without the cap of six.
renderRecommendationsUncapped(items, badgeLabel) ==
  IF Len(items) = 0 THEN renderEmpty(MsgNoRecommendations)
  ELSE LET toShow == SliceTo(items, MaxOf(2, Len(items)))
       IN  [results |-> [i \in 1..Len(toShow) |-> Card(toShow[i], badgeLabel)],
            emptyState |-> Hidden]

\* renderRecommendations(items, badgeLabel): the cards and the empty-state
\* box it leaves.
renderRecommendations(items, badgeLabel) ==
  IF Len(items) = 0 THEN renderEmpty(MsgNoRecommendations)
  ELSE LET maxToShow == MinOf(Len(items), 6)
           toShow == SliceTo(items, MaxOf(2, maxToShow))
       IN  [results |-> [i \in 1..Len(toShow) |-> Card(toShow[i], badgeLabel)],
            emptyState |-> Hidden]

\* ------------------------------------------------------------------ clock
\* The clock functions act on the handle, the timer table and the time box:
\* a record [clockIntervalId, timers, timeBox].

ClockState(id, ts, box) == [clockIntervalId |-> id, timers |-> ts, timeBox |-> box]

\* A repeating task: its handle and the list its callback closes over.
Timer(id, kind, tzList) == [id |-> id, kind |-> kind, tzList |-> tzList]

\* Handles setInterval may return: positive and not naming an active task.
FreshHandles(ts) == (1..MaxTimerId) \ {t.id : t \in ts}

\* stopClock() forgetting clearInterval: the handle is dropped, the task lives on.
stopClockLeak(cs) == [cs EXCEPT !.clockIntervalId = NoInterval]

\* stopClock()
stopClock(cs) ==
  IF cs.clockIntervalId # NoInterval
  THEN [cs EXCEPT !.timers = {t \in @ : t.id # cs.clockIntervalId},
                  !.clockIntervalId = NoInterval]
  ELSE cs

\* startSingleClock(countryName, timeZone) without its leading stopClock().
startSingleClockNoStop(cs, countryName, timeZone, now, id) ==
  IF ~Truthy(timeZone)
  THEN [cs EXCEPT !.timeBox =
          setTimeBox(<<"Current time: (time zone not configured for ">>
                     \o countryName \o <<")">>)]
  ELSE ClockState(id,
         cs.timers \cup {Timer(id, "single",
                          <<[label |-> countryName, timeZone |-> timeZone]>>)},
         setTimeBox(SingleClockText(countryName, timeZone, now)))

\* startSingleClock(countryName, timeZone); now and id are what new Date() and
\* setInterval return.
startSingleClock(cs, countryName, timeZone, now, id) ==
  LET s == stopClock(cs)
  IN  IF ~Truthy(timeZone)
      THEN [s EXCEPT !.timeBox =
              setTimeBox(<<"Current time: (time zone not configured for ">>
                         \o countryName \o <<")">>)]
      ELSE ClockState(id,
             s.timers \cup {Timer(id, "single",
                              <<[label |-> countryName, timeZone |-> timeZone]>>)},
             setTimeBox(SingleClockText(countryName, timeZone, now)))

\* startMultiClock(tzList) without its leading stopClock().
startMultiClockNoStop(cs, tzList, now, id) ==
  IF Len(tzList) = 0
  THEN [cs EXCEPT !.timeBox = setTimeBox(Null)]
  ELSE ClockState(id,
         cs.timers \cup {Timer(id, "multi", tzList)},
         setTimeBox(MultiClockText(tzList, now)))

\* startMultiClock(tzList)
startMultiClock(cs, tzList, now, id) ==
  LET s == stopClock(cs)
  IN  IF Len(tzList) = 0
      THEN [s EXCEPT !.timeBox = setTimeBox(Null)]
      ELSE ClockState(id,
             s.timers \cup {Timer(id, "multi", tzList)},
             setTimeBox(MultiClockText(tzList, now)))

\* The text a task's callback writes when it fires.
TickText(t, now) ==
  IF t.kind = "single"
  THEN SingleClockText(t.tzList[1].label, t.tzList[1].timeZone, now)
  ELSE MultiClockText(t.tzList, now)

\* ---------------------------------------------------------------- handlers
\* A run of handleSearch is modelled in two parts.  handleSearch(value, data)
\* follows the handler's if-chain down to the branch that returns and yields
\* the calls that branch makes, as a record: the tier, the message passed to
\* renderEmpty (Null when the branch calls renderRecommendations instead), the
\* list and badge passed to renderRecommendations, the query and category
\* label passed to setResultsHeader, and the clock call ("stop" for
\* stopClock(); setTimeBox(null), "single", "multi") with its (label,
\* timeZone) pairs.  Perform makes those calls on the page.

\* stopClock() without the setTimeBox(null) that follows it.
StopAndHideKeepsBox(cs) == stopClock(cs)

\* stopClock(); setTimeBox(null);
StopAndHide(cs) == [stopClock(cs) EXCEPT !.timeBox = setTimeBox(Null)]

Branch(tier, message, items, badge, query, label, clock, tzList) ==
  [tier |-> tier, message |-> message, items |-> items, badge |-> badge,
   query |-> query, label |-> label, clock |-> clock, tzList |-> tzList]

\* A branch that rejects the search or finds nothing: renderEmpty(message).
MessageBranch(tier, message, query) ==
  Branch(tier, message, <<>>, Null, query, Null, "stop", <<>>)

\* The single (label, timeZone) pair startSingleClock is called with.
Pair(countryName) ==
  <<[label |-> countryName, timeZone |-> getTimeZoneForCountry(countryName)]>>

\* The exact match written with includes() instead of ===.
exactCountryByIncludes(countries, keyword) ==
  FirstOf({i \in 1..Len(countries) : includes(toLowerCase(countries[i].name), keyword)})

\* countries.find(c => (c.name || '').toLowerCase() === keyword): the index of
\* the country found, 0 if none.
exactCountry(countries, keyword) ==
  FirstOf({i \in 1..Len(countries) : toLowerCase(countries[i].name) = keyword})

\* countries.find(c => (c.name || '').toLowerCase().includes(keyword))
partialCountry(countries, keyword) ==
  FirstOf({i \in 1..Len(countries) : includes(toLowerCase(countries[i].name), keyword)})

\* The city match written with find() instead of filter(): the first matching
\* city alone.
matchedCitiesFirstOnly(allCities, keyword) ==
  LET found == SelectSeq(allCities,
                         LAMBDA city : includes(toLowerCase(city.name), keyword))
  IN  IF found = <<>> THEN <<>> ELSE <<found[1]>>

\* allCities.filter(city => (city.name || '').toLowerCase().includes(keyword))
matchedCities(allCities, keyword) ==
  SelectSeq(allCities, LAMBDA city : includes(toLowerCase(city.name), keyword))

\* The country branch handing renderRecommendations the header's category
\* label for the badge.
CountryBranchLabelBadge(tier, raw, c) ==
  Branch(tier, Null, c.cities, c.name \o <<" (Cities)">>, raw,
         c.name \o <<" (Cities)">>, "single", Pair(c.name))

\* The branch for a country found by name, exactly (tier 4) or partially (5).
CountryBranch(tier, raw, c) ==
  Branch(tier, Null, c.cities, c.name, raw, c.name \o <<" (Cities)">>,
         "single", Pair(c.name))

\* handleSearch() from the exact country match on: the country and city tiers
\* and the no-match fall-through.
searchByName(raw, keyword, data) ==
  LET countries == CountriesOf(data)
      exact == exactCountry(countries, keyword)
      partial == partialCountry(countries, keyword)
      matched == matchedCities(flattenAllCities(countries), keyword)
      inferredCountry == inferCountryFromCityName(matched[1].name)
  IN  IF exact # 0 THEN CountryBranch(4, raw, countries[exact])
      ELSE IF partial # 0 THEN CountryBranch(5, raw, countries[partial])
      ELSE IF Len(matched) > 0
      THEN IF Truthy(inferredCountry)
           THEN Branch(6, Null, matched, <<"City">>, raw, <<"City Results">>,
                       "single", Pair(inferredCountry))
           ELSE Branch(6, Null, matched, <<"City">>, raw, <<"City Results">>,
                       "stop", <<>>)
      ELSE MessageBranch(7, MsgNoMatches, raw)

\* The tier 3 branch: every city, and a multi-clock for the mapped countries.
AllCitiesBranch(raw, countries) ==
  Branch(3, Null, flattenAllCities(countries), <<"Countries">>, raw,
         <<"Countries (Cities)">>, "multi",
         getTimeZonesForCountries([i \in 1..Len(countries) |-> countries[i].name]))

\* handleSearch() with the exact country match tried ahead of the keywords.
searchByKeywordCountryFirst(raw, keyword, data) ==
  IF exactCountry(CountriesOf(data), keyword) # 0
  THEN searchByName(raw, keyword, data)
  ELSE IF keyword = Beach
  THEN Branch(1, Null, BeachesOf(data), <<"Beaches">>, raw, <<"Beaches">>, "stop", <<>>)
  ELSE IF keyword = Temple
  THEN Branch(2, Null, TemplesOf(data), <<"Temples">>, raw, <<"Temples">>, "stop", <<>>)
  ELSE IF keyword = Country
  THEN AllCitiesBranch(raw, CountriesOf(data))
  ELSE searchByName(raw, keyword, data)

\* handleSearch() from the normalized keyword on: the three keyword tiers,
\* then the name tiers.
searchByKeyword(raw, keyword, data) ==
  IF keyword = Beach
  THEN Branch(1, Null, BeachesOf(data), <<"Beaches">>, raw, <<"Beaches">>, "stop", <<>>)
  ELSE IF keyword = Temple
  THEN Branch(2, Null, TemplesOf(data), <<"Temples">>, raw, <<"Temples">>, "stop", <<>>)
  ELSE IF keyword = Country
  THEN AllCitiesBranch(raw, CountriesOf(data))
  ELSE searchByName(raw, keyword, data)

\* handleSearch() with the dataset check ahead of the blank-input check.
handleSearchLoadingFirst(value, data) ==
  LET raw == trim(value)
  IN  IF data = NoData THEN MessageBranch(0, MsgStillLoading, Null)
      ELSE IF ~Truthy(raw) THEN MessageBranch(0, MsgTypeKeyword, Null)
      ELSE searchByKeyword(raw, normalizeKeyword(raw), data)

\* handleSearch(): value is #searchInput.value, data is apiData.
handleSearch(value, data) ==
  LET raw == trim(value)
  IN  IF ~Truthy(raw) THEN MessageBranch(0, MsgTypeKeyword, Null)
      ELSE IF data = NoData THEN MessageBranch(0, MsgStillLoading, Null)
      ELSE searchByKeyword(raw, normalizeKeyword(raw), data)

\* The calls of a branch with setResultsHeader given no query.
PerformWithoutQuery(b, cs, now, id) ==
  LET render == IF b.message # Null THEN renderEmpty(b.message)
                ELSE renderRecommendations(b.items, b.badge)
  IN  [results |-> render.results,
       emptyState |-> render.emptyState,
       resultsHeader |-> setResultsHeader(Null, Len(b.items), b.label),
       clock |-> IF b.clock = "single"
                 THEN startSingleClock(cs, b.tzList[1].label, b.tzList[1].timeZone,
                                       now, id)
                 ELSE IF b.clock = "multi"
                 THEN startMultiClock(cs, b.tzList, now, id)
                 ELSE StopAndHide(cs),
       call |-> Call("handleSearch", cs.timers # {}, b.tier, b.items, b.label,
                     IF b.clock = "stop" THEN "none" ELSE b.clock, b.tzList)]

\* The calls of a branch of handleSearch made on the page: what they leave in
\* the cards, the empty-state box, the header and the clock state cs; now and
\* id are what new Date() and setInterval return.
Perform(b, cs, now, id) ==
  LET render == IF b.message # Null THEN renderEmpty(b.message)
                ELSE renderRecommendations(b.items, b.badge)
  IN  [results |-> render.results,
       emptyState |-> render.emptyState,
       resultsHeader |-> setResultsHeader(b.query, Len(b.items), b.label),
       clock |-> IF b.clock = "single"
                 THEN startSingleClock(cs, b.tzList[1].label, b.tzList[1].timeZone,
                                       now, id)
                 ELSE IF b.clock = "multi"
                 THEN startMultiClock(cs, b.tzList, now, id)
                 ELSE StopAndHide(cs),
       call |-> Call("handleSearch", cs.timers # {}, b.tier, b.items, b.label,
                     IF b.clock = "stop" THEN "none" ELSE b.clock, b.tzList)]

\* clearResults() without its stopClock(): the time box is hidden, the task kept.
clearResultsKeepsClock(cs) ==
  [searchInput |-> Empty, results |-> <<>>, emptyState |-> Hidden,
   resultsHeader |-> setResultsHeader(Null, 0, Null),
   clock |-> [cs EXCEPT !.timeBox = setTimeBox(Null)]]

\* clearResults(): everything it writes.
clearResults(cs) ==
  [searchInput |-> Empty, results |-> <<>>, emptyState |-> Hidden,
   resultsHeader |-> setResultsHeader(Null, 0, Null), clock |-> StopAndHide(cs)]

CurrentClock == ClockState(clockIntervalId, timers, timeBox)

\* ----------------------------------------------------------------- actions
Init ==
  /\ apiData = NoData
  /\ fetchState = "pending"
  /\ clockIntervalId = NoInterval
  /\ timers = {}
  /\ searchInput = Empty
  /\ results = <<>>
  /\ emptyState = Hidden
  /\ resultsHeader = setResultsHeader(Null, 0, Null)
  /\ timeBox = Hidden
  /\ page = "home"
  /\ lastCall = Plain("init", FALSE)

\* fetchApiData resumes after both awaits with a parsed document.
FetchLoaded ==
  /\ fetchState = "pending"
  /\ \E d \in DataSets : apiData' = d
  /\ fetchState' = "loaded"
  /\ lastCall' = Plain("fetchApiData", timers # {})
  /\ UNCHANGED <<clockIntervalId, timers, searchInput, results, emptyState,
                 resultsHeader, timeBox, page>>

\* fetchApiData's catch block falling back to an empty dataset.
FetchFailedWithDefault ==
  /\ fetchState = "pending"
  /\ fetchState' = "failed"
  /\ apiData' = SizedData(0)
  /\ results' = renderEmpty(MsgUnableToLoad).results
  /\ emptyState' = renderEmpty(MsgUnableToLoad).emptyState
  /\ lastCall' = Plain("fetchApiData", timers # {})
  /\ UNCHANGED <<clockIntervalId, timers, searchInput, resultsHeader,
                 timeBox, page>>

\* fetchApiData's catch block: the request or the parse failed.
FetchFailed ==
  /\ fetchState = "pending"
  /\ fetchState' = "failed"
  /\ results' = renderEmpty(MsgUnableToLoad).results
  /\ emptyState' = renderEmpty(MsgUnableToLoad).emptyState
  /\ lastCall' = Plain("fetchApiData", timers # {})
  /\ UNCHANGED <<apiData, clockIntervalId, timers, searchInput, resultsHeader,
                 timeBox, page>>

\* A search whose renderRecommendations leaves the empty-state box as it was
\* when it has cards to show.
HandleSearchKeepsMessage ==
  \E q \in Queries :
    \E b \in {handleSearch(q, apiData)} :
      \E now \in Times, id \in 1..MaxTimerId :
        \E o \in {Perform(b, CurrentClock, now, id)} :
          /\ id \in FreshHandles(stopClock(CurrentClock).timers)
          /\ searchInput' = q
          /\ results' = o.results
          /\ emptyState' = IF o.results # <<>> THEN emptyState ELSE o.emptyState
          /\ resultsHeader' = o.resultsHeader
          /\ clockIntervalId' = o.clock.clockIntervalId
          /\ timers' = o.clock.timers
          /\ timeBox' = o.clock.timeBox
          /\ lastCall' = o.call
          /\ UNCHANGED <<apiData, fetchState, page>>

\* The user leaves q in the search box and clicks Search.
HandleSearch ==
  \E q \in Queries :
    \E b \in {handleSearch(q, apiData)} :
      \E now \in Times, id \in 1..MaxTimerId :
        \E o \in {Perform(b, CurrentClock, now, id)} :
          /\ id \in FreshHandles(stopClock(CurrentClock).timers)
          /\ searchInput' = q
          /\ results' = o.results
          /\ emptyState' = o.emptyState
          /\ resultsHeader' = o.resultsHeader
          /\ clockIntervalId' = o.clock.clockIntervalId
          /\ timers' = o.clock.timers
          /\ timeBox' = o.clock.timeBox
          /\ lastCall' = o.call
          /\ UNCHANGED <<apiData, fetchState, page>>

\* The user clicks Reset.
ClearResults ==
  LET o == clearResults(CurrentClock)
  IN  /\ searchInput' = o.searchInput
      /\ results' = o.results
      /\ emptyState' = o.emptyState
      /\ resultsHeader' = o.resultsHeader
      /\ clockIntervalId' = o.clock.clockIntervalId
      /\ timers' = o.clock.timers
      /\ timeBox' = o.clock.timeBox
      /\ lastCall' = Plain("clearResults", timers # {})
      /\ UNCHANGED <<apiData, fetchState, page>>

\* showPage(pageName) without the clearResults() of its about and contact
\* branches.
ShowPageKeepsResults ==
  \E pageName \in Pages :
    /\ page' = pageName
    /\ lastCall' = Plain("showPage", timers # {})
    /\ UNCHANGED <<apiData, fetchState, searchInput, results, emptyState,
                   resultsHeader, clockIntervalId, timers, timeBox>>

\* showPage(pageName): the user clicks a navigation link.
ShowPage ==
  \E pageName \in Pages :
    LET o == clearResults(CurrentClock)
    IN  /\ page' = pageName
        /\ lastCall' = Plain("showPage", timers # {})
        /\ IF pageName = "home"
           THEN UNCHANGED <<searchInput, results, emptyState, resultsHeader,
                            clockIntervalId, timers, timeBox>>
           ELSE /\ searchInput' = o.searchInput
                /\ results' = o.results
                /\ emptyState' = o.emptyState
                /\ resultsHeader' = o.resultsHeader
                /\ clockIntervalId' = o.clock.clockIntervalId
                /\ timers' = o.clock.timers
                /\ timeBox' = o.clock.timeBox
        /\ UNCHANGED <<apiData, fetchState>>

\* One firing of an active repeating task: its callback rewrites the time box.
Tick ==
  \E t \in timers, now \in Times :
    /\ timeBox' = setTimeBox(TickText(t, now))
    /\ lastCall' = Plain("tick", timers # {})
    /\ UNCHANGED <<apiData, fetchState, clockIntervalId, timers, searchInput,
                   results, emptyState, resultsHeader, page>>

Next ==
  \/ FetchLoaded
  \/ FetchFailed
  \/ HandleSearch
  \/ ClearResults
  \/ ShowPage
  \/ Tick

Spec == Init /\ [][Next]_vars

\* ------------------------------------------------------------- properties

\* Whether the last handler to run was a search.
Searching == lastCall.handler = "handleSearch"

\* C1: in every reachable state at most one repeating clock task is active,
\* and an active task is the one recorded in clockIntervalId.
AtMostOneClockTask ==
  /\ Cardinality(timers) <= 1
  /\ \A t \in timers : t.id = clockIntervalId

\* C1 witness: a search has started a clock while another one was running.
ClockReplaced ==
  /\ Searching
  /\ lastCall.running
  /\ lastCall.started # "none"
  /\ Cardinality(timers) = 1

\* Whether the last clock start call was given something to schedule: a
\* configured timezone (single) or a non-empty list (multi).
Schedulable ==
  \/ lastCall.started = "single" /\ Truthy(lastCall.tzList[1].timeZone)
  \/ lastCall.started = "multi" /\ Len(lastCall.tzList) > 0

\* C2 as stated: every call to startSingleClock or startMultiClock leaves
\* exactly one active repeating task.
StartAlwaysLeavesOneTask ==
  Searching /\ lastCall.started # "none" => Cardinality(timers) = 1

\* C2 amended: a call to startSingleClock with a configured timezone or to
\* startMultiClock with a non-empty list, from Idle or Running, leaves exactly
\* one active task, bound to the pairs passed and recorded in clockIntervalId;
\* a call without a timezone or with an empty list leaves no task.
StartLeavesOneTaskWhenSchedulable ==
  Searching /\ lastCall.started # "none" =>
    IF Schedulable
    THEN /\ Cardinality(timers) = 1
         /\ \A t \in timers : t.id = clockIntervalId /\ t.tzList = lastCall.tzList
                              /\ t.kind = lastCall.started
    ELSE timers = {} /\ clockIntervalId = NoInterval

\* C2 witness: a multi-clock was started over a running clock.
MultiStartedOverRunning ==
  /\ Searching
  /\ lastCall.running
  /\ lastCall.started = "multi"
  /\ Schedulable
  /\ Cardinality(timers) = 1

\* C3: after clearResults no clock task is active, the time box and the
\* results header are hidden, no card is rendered, the empty-state message is
\* hidden and the query input is empty.
ResetClearsEverything ==
  lastCall.handler = "clearResults" =>
    /\ timers = {}
    /\ clockIntervalId = NoInterval
    /\ timeBox = [display |-> "none", text |-> Empty]
    /\ resultsHeader.display = "none"
    /\ results = <<>>
    /\ emptyState = [display |-> "none", text |-> Empty]
    /\ searchInput = Empty

\* C3 witness: a reset was run while a clock was running.
ResetWhileRunning == lastCall.handler = "clearResults" /\ lastCall.running

\* The query the last search read: the trimmed input and its normalized form.
LastRaw == trim(searchInput)
LastKeyword == normalizeKeyword(LastRaw)

\* Whether q is empty or whitespace-only.
Blank(q) == \A i \in 1..Len(q) : q[i] \in SpaceChars

\* The last handler was a search of a non-blank query with the dataset loaded.
Evaluated == Searching /\ ~Blank(searchInput) /\ apiData # NoData

CountryNames == [i \in 1..Len(CountriesOf(apiData)) |-> CountriesOf(apiData)[i].name]

\* Indices of the countries whose lower-cased name equals, or contains, kw.
EqualTo(kw) == {i \in 1..Len(CountryNames) : toLowerCase(CountryNames[i]) = kw}
Containing(kw) ==
  {i \in 1..Len(CountryNames) : includes(toLowerCase(CountryNames[i]), kw)}

\* Whether some city of some country has a name containing kw.
SomeCityContains(kw) ==
  \E i \in 1..Len(CountriesOf(apiData)) :
    \E j \in 1..Len(CountriesOf(apiData)[i].cities) :
      includes(toLowerCase(CountriesOf(apiData)[i].cities[j].name), kw)

\* The first of the seven tiers whose condition kw meets.
FirstTier(kw) ==
  IF kw = Beach THEN 1
  ELSE IF kw = Temple THEN 2
  ELSE IF kw = Country THEN 3
  ELSE IF EqualTo(kw) # {} THEN 4
  ELSE IF Containing(kw) # {} THEN 5
  ELSE IF SomeCityContains(kw) THEN 6
  ELSE 7

\* C4: a non-blank query submitted with the dataset loaded fires exactly one
\* tier, the first of tiers 1..7 whose condition holds; the keywords fire
\* tiers 1-3 whatever the country and city names are; tier 7 leaves zero
\* cards, a null label and the no-match message.
OneTierInOrder ==
  Evaluated =>
    /\ lastCall.tier \in 1..7
    /\ lastCall.tier = FirstTier(LastKeyword)
    /\ LastKeyword = Beach => lastCall.tier = 1 /\ lastCall.label = <<"Beaches">>
    /\ LastKeyword = Temple => lastCall.tier = 2 /\ lastCall.label = <<"Temples">>
    /\ LastKeyword = Country =>
         lastCall.tier = 3 /\ lastCall.label = <<"Countries (Cities)">>
    /\ lastCall.tier = 7 =>
         /\ results = <<>>
         /\ lastCall.items = <<>>
         /\ lastCall.label = Null
         /\ resultsHeader.meta =
              <<"Category: (no match)", " (bullet) Matches found: ", "0">>
         /\ emptyState = [display |-> "block", text |-> MsgNoMatches]

\* C4 witness: "beach" was searched in a dataset with a country named Beach,
\* and tier 1 fired.
KeywordBeatsCountryName ==
  /\ Evaluated
  /\ LastKeyword = Beach
  /\ EqualTo(Beach) # {}
  /\ lastCall.tier = 1

\* C5: a search of an empty or whitespace-only input evaluates no tier and
\* leaves the guidance message, zero cards, the header hidden, no clock task
\* and the time box hidden, whether or not the dataset is loaded.
BlankQueryRejected ==
  Searching /\ Blank(searchInput) =>
    /\ lastCall.tier = 0
    /\ emptyState = [display |-> "block", text |-> MsgTypeKeyword]
    /\ results = <<>>
    /\ resultsHeader.display = "none"
    /\ timers = {}
    /\ clockIntervalId = NoInterval
    /\ timeBox = [display |-> "none", text |-> Empty]

\* C5 witness: a whitespace-only search with the dataset loaded and a clock
\* running.
BlankSearchWhileRunning ==
  /\ Searching
  /\ Blank(searchInput)
  /\ searchInput # Empty
  /\ apiData # NoData
  /\ lastCall.running

\* What any search made before the dataset is set leaves, apart from the
\* message: no tier, no cards, no header, no clock task.
NothingShown ==
  /\ lastCall.tier = 0
  /\ lastCall.started = "none"
  /\ results = <<>>
  /\ resultsHeader.display = "none"
  /\ timers = {}
  /\ clockIntervalId = NoInterval
  /\ timeBox.display = "none"
  /\ emptyState.display = "block"

\* C6 as stated: every search made before the dataset is set is rejected
\* with the still-loading message.
AllSearchesGetLoadingMessage ==
  Searching /\ apiData = NoData =>
    NothingShown /\ emptyState.text = MsgStillLoading

\* After a search made before the dataset is set: nothing is shown, and the
\* message is the still-loading one for a non-blank input, the guidance one
\* for a blank input.
RejectedWhileUnset ==
  Searching /\ apiData = NoData =>
    /\ NothingShown
    /\ emptyState.text = IF Blank(searchInput) THEN MsgTypeKeyword ELSE MsgStillLoading

\* C6 amended: until the load resolves every non-blank search is rejected
\* with the still-loading message and every blank one with the guidance
\* message, in both cases with no tier, cards, header or clock; and the step
\* that completes the load replays no search: it changes nothing displayed.
LoadingRejectsSearches ==
  [][ /\ RejectedWhileUnset'
      /\ (apiData = NoData /\ apiData' # NoData) =>
           UNCHANGED <<clockIntervalId, timers, searchInput, results,
                       emptyState, resultsHeader, timeBox>> ]_vars

\* C6 witness: a non-blank search was rejected while the fetch was pending.
SearchedWhilePending ==
  /\ Searching
  /\ fetchState = "pending"
  /\ ~Blank(searchInput)
  /\ emptyState.text = MsgStillLoading

\* C7: once the fetch has failed the dataset stays unset, the failure itself
\* leaves the unable-to-load message, every later non-blank search gets the
\* still-loading message, no card is rendered, no clock task exists, and
\* search, reset and navigation stay enabled.
FailedFetchStaysUnset ==
  fetchState = "failed" =>
    /\ apiData = NoData
    /\ results = <<>>
    /\ timers = {}
    /\ clockIntervalId = NoInterval
    /\ lastCall.handler = "fetchApiData" =>
         emptyState = [display |-> "block", text |-> MsgUnableToLoad]
    /\ Searching /\ ~Blank(searchInput) =>
         emptyState = [display |-> "block", text |-> MsgStillLoading]
    /\ ENABLED HandleSearch
    /\ ENABLED ClearResults
    /\ ENABLED ShowPage

\* C7 witness: a non-blank search was made after the fetch failed.
SearchedAfterFailure ==
  /\ fetchState = "failed"
  /\ Searching
  /\ ~Blank(searchInput)

\* Whether q equals "beach" or "beaches" up to letter case, surrounding
\* whitespace and stripped punctuation.
IsBeachQuery(q) ==
  trim(StripPunctuation(toLowerCase(q))) \in {Beach, <<"b","e","a","c","h","e","s">>}

\* C8: with the dataset loaded, a query that is "beach" or "beaches" up to
\* case, whitespace and punctuation fires tier 1: the result is the beaches
\* list (empty if the key is absent), the label is "Beaches", the header
\* reports the list's length, and no clock task is left.
BeachQueryGivesBeaches ==
  Searching /\ apiData # NoData /\ IsBeachQuery(searchInput) =>
    /\ lastCall.tier = 1
    /\ lastCall.items = (IF "beaches" \in apiData.keys THEN apiData.beaches ELSE <<>>)
    /\ lastCall.label = <<"Beaches">>
    /\ resultsHeader.meta =
         <<"Category: ", "Beaches", " (bullet) Matches found: ",
           ToString(Len(lastCall.items))>>
    /\ timers = {}
    /\ clockIntervalId = NoInterval

\* C8 witness: " BEACH! " was searched while a clock was running.
ShoutedBeachSearched ==
  /\ Searching
  /\ apiData # NoData
  /\ searchInput = <<" ","B","E","A","C","H","!"," ">>
  /\ lastCall.running
  /\ Len(lastCall.items) > 0

\* C9 as stated: a query equal, case-insensitively, to some country's name
\* resolves via tier 4.
EqualNameGivesTierFour ==
  Evaluated /\ EqualTo(LastKeyword) # {} => lastCall.tier = 4

\* C9 amended: a normalized query that is none of the keywords beach, temple,
\* country and equals the lower-cased name of some country resolves via tier 4
\* to the cities of the first such country, even when an earlier country's
\* name contains it; tier 5 is reached only when no country name equals the
\* query, and resolves to the cities of the first country whose name contains
\* it.
ExactCountryBeforePartial ==
  Evaluated /\ LastKeyword \notin {Beach, Temple, Country} =>
    /\ EqualTo(LastKeyword) # {} =>
         /\ lastCall.tier = 4
         /\ lastCall.items = CountriesOf(apiData)[SetMin(EqualTo(LastKeyword))].cities
    /\ lastCall.tier = 5 =>
         /\ EqualTo(LastKeyword) = {}
         /\ lastCall.items = CountriesOf(apiData)[SetMin(Containing(LastKeyword))].cities

\* C9 witness: the query equals the name of a country that comes after a
\* country whose name contains it, and tier 4 fired.
ExactAfterContaining ==
  /\ Evaluated
  /\ lastCall.tier = 4
  /\ SetMin(Containing(LastKeyword)) < SetMin(EqualTo(LastKeyword))

\* C10: renderRecommendations leaves exactly the cards of its window: none
\* plus the no-recommendations message for an empty list, one for a list of
\* one, and the first min(6, count) items, in order, for count >= 2.
RenderWindow ==
  Searching /\ lastCall.tier \in 1..6 =>
    LET count == Len(lastCall.items)
    IN  /\ count = 0 =>
             /\ results = <<>>
             /\ emptyState = [display |-> "block", text |-> MsgNoRecommendations]
        /\ count = 1 => Len(results) = 1
        /\ count >= 2 =>
             /\ Len(results) >= 2
             /\ Len(results) <= 6
             /\ Len(results) = IF count < 6 THEN count ELSE 6
        /\ \A i \in 1..Len(results) :
             /\ i <= count
             /\ results[i].name = IF lastCall.items[i].name = Empty
                                  THEN <<"Unknown Place">>
                                  ELSE lastCall.items[i].name

\* C10 witness: a list of more than six places was rendered as six cards.
SevenShownAsSix ==
  /\ Searching
  /\ Len(lastCall.items) > 6
  /\ Len(results) = 6

\* ------------------------------------------------------------------- C11
\* The commas of a text, by position.
Commas(text) == {i \in 1..Len(text) : text[i] = ","}

\* The greatest member of a non-empty set of positions.
LastOf(positions) == CHOOSE i \in positions : \A j \in positions : j <= i

\* The name of the first card source of the last search: the city whose name
\* the city tier hands to inferCountryFromCityName.
FirstMatchedName == lastCall.items[1].name

\* C11: the country the city tier infers from the first matched city's name
\* is found in the name alone: a trimmed name without a comma gives no
\* country (no clock call is made for one), otherwise the country is the text
\* after the last comma, trimmed, which the clock is then asked for whether
\* or not the dataset has a country of that name (an empty last segment is no
\* country to ask for).
CountryIsLastCommaSegment ==
  (Searching /\ lastCall.tier = 6) =>
    LET text == trim(FirstMatchedName)
    IN  IF Commas(text) = {}
        THEN lastCall.started = "none"
        ELSE LET last == trim(SubSeq(text, LastOf(Commas(text)) + 1, Len(text)))
             IN  IF last = Empty
                 THEN lastCall.started = "none"
                 ELSE /\ lastCall.started = "single"
                      /\ lastCall.tzList[1].label = last

\* A city whose name has two commas was matched first and its last segment
\* was taken for the country.
TwoCommaCityInferred ==
  /\ Searching
  /\ lastCall.tier = 6
  /\ Cardinality(Commas(FirstMatchedName)) = 2
  /\ lastCall.started = "single"
  /\ lastCall.tzList[1].label = Japan

\* ------------------------------------------------------------------- C12
\* C12: the tiers are evaluated only on a non-empty normalized query: a search
\* whose input is not blank but normalizes to the empty text is no query, so
\* it resolves to no keyword, country or city tier, shows no cards and starts
\* no clock.
EmptyKeywordResolvesNothing ==
  (Evaluated /\ LastKeyword = Empty) =>
    /\ lastCall.tier \notin 1..6
    /\ results = <<>>
    /\ timers = {}

\* ------------------------------------------------------------------- C13
\* The clock is Idle: no repeating task, no handle.
ClockIdle == timers = {} /\ clockIntervalId = NoInterval

\* The country names the timezone table has an entry for, as it keys them.
ConfiguredKeys == {toLowerCase(Australia), toLowerCase(Japan), toLowerCase(Brazil)}

Configured(countryName) == toLowerCase(trim(countryName)) \in ConfiguredKeys

\* C13: each of these leaves the clock Idle: a reset, a blank search, a
\* search resolved to a country the timezone table has no entry for, a
\* "country" search when no country of the dataset has an entry, and showing
\* the About or the Contact page.
StopEventsLeaveClockIdle ==
  /\ lastCall.handler = "clearResults" => ClockIdle
  /\ (Searching /\ Blank(searchInput)) => ClockIdle
  /\ (Searching /\ lastCall.started = "single"
        /\ ~Configured(lastCall.tzList[1].label)) => ClockIdle
  /\ (Searching /\ lastCall.tier = 3
        /\ \A i \in 1..Len(CountryNames) : ~Configured(CountryNames[i])) => ClockIdle
  /\ (lastCall.handler = "showPage" /\ page \in {"about", "contact"}) => ClockIdle

\* The About page was shown while a clock was running.
LeftForAboutWhileRunning ==
  /\ lastCall.handler = "showPage"
  /\ page = "about"
  /\ lastCall.running

\* ------------------------------------------------------------------- C14
\* The message startSingleClock shows for a country without a timezone.
NotConfiguredMessage(countryName) ==
  <<"Current time: (time zone not configured for ">> \o countryName \o <<")">>

LinedCountries ==
  SelectSeq([i \in 1..Len(CountryNames) |-> i],
            LAMBDA i : /\ Configured(CountryNames[i])
                       /\ \A j \in 1..(i - 1) :
                            trim(CountryNames[j]) # trim(CountryNames[i]))

\* The (label, timeZone) lines of the multi-clock, in dataset order.
ExpectedLines ==
  [k \in 1..Len(LinedCountries) |->
     [label |-> trim(CountryNames[LinedCountries[k]]),
      timeZone |-> getTimeZoneForCountry(CountryNames[LinedCountries[k]])]]

CardTiers == 1..6

\* C16 as stated: on every card of a search the badge is the category label
\* of the match result, the one the header reports.
BadgeIsCategoryLabel ==
  (Searching /\ lastCall.tier \in CardTiers) =>
    \A i \in 1..Len(results) : results[i].badge = lastCall.label

\* The country a country-tier search resolved to: the first one named by the
\* keyword exactly, else the first one whose name contains it.
ResolvedCountry ==
  CountryNames[IF EqualTo(LastKeyword) # {} THEN FirstOf(EqualTo(LastKeyword))
               ELSE FirstOf(Containing(LastKeyword))]

\* The badge of each tier.
TierBadge ==
  CASE lastCall.tier = 1 -> <<"Beaches">>
    [] lastCall.tier = 2 -> <<"Temples">>
    [] lastCall.tier = 3 -> <<"Countries">>
    [] lastCall.tier \in {4, 5} -> ResolvedCountry
    [] lastCall.tier = 6 -> <<"City">>

\* The category label of each tier.
TierLabel ==
  CASE lastCall.tier = 1 -> <<"Beaches">>
    [] lastCall.tier = 2 -> <<"Temples">>
    [] lastCall.tier = 3 -> <<"Countries (Cities)">>
    [] lastCall.tier \in {4, 5} -> ResolvedCountry \o <<" (Cities)">>
    [] lastCall.tier = 6 -> <<"City Results">>

\* C16 amended: every card of a search carries the badge of its tier:
\* "Beaches", "Temples", "Countries", the resolved country's name, or "City";
\* the header reports the category label "Beaches", "Temples",
\* "Countries (Cities)", "<CountryName> (Cities)" or "City Results", so badge
\* and label are the same text for the beach and temple tiers only.
BadgeIsTierBadge ==
  (Searching /\ lastCall.tier \in CardTiers) =>
    /\ \A i \in 1..Len(results) : results[i].badge = TierBadge
    /\ lastCall.label = TierLabel
    /\ resultsHeader.display = "block"
    /\ SubSeq(resultsHeader.meta, 2, 1 + Len(TierLabel)) = TierLabel
    /\ (TierBadge = TierLabel) <=> (lastCall.tier \in {1, 2})

\* A search resolved to a country by name and rendered its cities as cards.
CountryCardsShown ==
  /\ Searching
  /\ lastCall.tier = 4
  /\ Len(results) >= 2
  /\ results[1].badge = Japan

\* ------------------------------------------------------------------- C17
\* C17: cards and the empty-state message are never shown together: while
\* there are cards the empty-state box is hidden and holds no text, and while
\* the box is shown it holds a message and there are no cards.
CardsAndMessageExclusive ==
  /\ results # <<>> => emptyState = Hidden
  /\ emptyState.display = "block" => results = <<>> /\ emptyState.text # Empty

\* The fetch failed late, after a search had already been answered with a
\* message: the failure message took its place and there are no cards.
LateFetchFailure ==
  /\ lastCall.handler = "fetchApiData"
  /\ fetchState = "failed"
  /\ ~Blank(searchInput)
  /\ emptyState = [display |-> "block", text |-> MsgUnableToLoad]
  /\ results = <<>>

\* ------------------------------------------------------------------- C18
\* C18: while a clock task is active the dataset is loaded, the time box is
\* visible, the results header is visible, and the search box still holds
\* the non-blank query of the search that started it, one the country or
\* city tiers (3 to 6) resolve.
ClockRunsOnlyOverResults ==
  timers # {} =>
    /\ clockIntervalId # NoInterval
    /\ apiData # NoData
    /\ timeBox.display = "block"
    /\ resultsHeader.display = "block"
    /\ ~Blank(searchInput)
    /\ FirstTier(LastKeyword) \in 3..6

\* The Home page was shown again while a clock was running: the clock, the
\* time box and the header stay.
HomeShownWhileRunning ==
  /\ lastCall.handler = "showPage"
  /\ page = "home"
  /\ timers # {}

\* ------------------------------------------------------------------- C19
\* C19: a tick rewrites the text of the time box with a reading of the
\* schedule clockIntervalId names, and changes nothing else: not the dataset,
\* the handle, the tasks, the cards, the header, the empty-state box, the
\* search box or the page; no task other than the current one ticks, so a
\* hidden time box is shown again by a search only.
TickOnlyRewritesTimeBox ==
  [][ /\ lastCall'.handler = "tick" =>
           /\ UNCHANGED <<apiData, fetchState, clockIntervalId, timers,
                          searchInput, results, emptyState, resultsHeader, page>>
           /\ \E t \in timers, now \in Times :
                /\ t.id = clockIntervalId
                /\ timeBox' = [display |-> "block", text |-> TickText(t, now)]
      /\ (timeBox.display = "none" /\ timeBox'.display # "none") =>
           lastCall'.handler = "handleSearch"
    ]_vars

\* A tick has rewritten the time box under the cards of a search.
TickedUnderCards ==
  /\ lastCall.handler = "tick"
  /\ timers # {}
  /\ results # <<>>
  /\ timeBox.display = "block"

====
